---- MODULE Spec2Model ----
(***************************************************************************)
(* A model of the INI reader (src/src/reader.rs), the INI writer           *)
(* (src/src/writer.rs) and the document types (src/src/ini_format.rs).     *)
(*                                                                         *)
(* Text is a sequence of one-character strings.  The reader is modelled    *)
(* as a state machine over the fields of IniReader, one action per branch  *)
(* of the recursive-descent functions; the writer appends to the text of   *)
(* standard output, one action per top-level entry.                        *)
(***************************************************************************)
EXTENDS Integers, Sequences, FiniteSets, TLC

VARIABLES
    input,      \* the content of the stream behind IniReader.reader
    pos,        \* number of characters the BufferedReader has handed out
    next_char,  \* IniReader.next_char
    good,       \* IniReader.good
    ini,        \* IniReader.ini
    result,     \* the value parse() returned, [kind |-> "None"] before it returns
    pc,         \* position of the control flow
    acc,        \* local section_name (parse_section_name) / key_name (parse_key)
    section,    \* local section of parse_section
    ini_file,   \* argument of write_ini_file
    out,        \* text printed on standard output
    wi,         \* index of the entry write_ini_file's loop is at
    round,      \* 1: first reader, 2: reader over the text the writer printed
    mode        \* "parse": the reader drives; "print": a document built in code is printed

vars == <<input, pos, next_char, good, ini, result, pc, acc, section,
          ini_file, out, wi, round, mode>>

-----------------------------------------------------------------------------
(* Bounds of the explored inputs *)

MaxLen == 6        \* every stream over Alphabet of at most this length is read
MaxFrags == 4      \* streams made of at most this many lines of Frags are read
MaxDocLen == 2     \* printed documents have at most this many entries
MaxSecLen == 2     \* printed sections have at most this many entries

Alphabet == {"[", "]", ";", "=", "\n", " ", "a"}

Frags == <<
    <<"[", "a", "]", "\n">>,
    <<";", " ", "c", "\n">>,
    <<"k", "=", "v", "\n">>,
    <<"k", " ", "=", " ", "v", " ", "\n">>,
    <<"k", "=", "\n">>,
    <<"[", "a", " ", "b", "]", "\n">>,
    <<"[", "b", "]", "\n">> >>

RECURSIVE Flatten(_)
Flatten(ss) == IF ss = <<>> THEN <<>> ELSE Head(ss) \o Flatten(Tail(ss))

ShortInputs == UNION {[1..k -> Alphabet] : k \in 0..MaxLen}

FragInputs ==
    UNION {{Flatten([i \in 1..k |-> Frags[f[i]]]) : f \in [1..k -> 1..Len(Frags)]}
           : k \in 0..MaxFrags}

Inputs == ShortInputs \cup FragInputs

-----------------------------------------------------------------------------
(* ini_format.rs *)

EntryComment(text) == [type |-> "Comment", text |-> text]

EntrySection(s) == [type |-> "Section", name |-> s.name, entries |-> s.entries]

Section(name, entries) == [name |-> name, entries |-> entries]

SectionEntryComment(text) == [type |-> "Comment", text |-> text]

SectionEntryKey(name, value) == [type |-> "Key", name |-> name, value |-> value]

(* Documents built in code and handed to the writer, as test_print does *)
DocTexts == {<<"c">>, <<"a", " ", "b">>}

DocSectionEntries ==
    {SectionEntryComment(t) : t \in DocTexts} \cup {SectionEntryKey(<<"k">>, <<"v">>)}

DocEntries ==
    {EntryComment(t) : t \in DocTexts}
    \cup {EntrySection(Section(<<"S">>, es)) :
            es \in UNION {[1..k -> DocSectionEntries] : k \in 0..MaxSecLen}}

Docs == UNION {[1..k -> DocEntries] : k \in 0..MaxDocLen}

-----------------------------------------------------------------------------
(* Characters and strings *)

IsWhitespace(c) == c \in {" ", "\t", "\n", "\r"}

RECURSIVE TrimLeft(_)
TrimLeft(s) ==
    IF s # <<>> /\ IsWhitespace(Head(s)) THEN TrimLeft(Tail(s)) ELSE s

RECURSIVE TrimRight(_)
TrimRight(s) ==
    IF s # <<>> /\ IsWhitespace(s[Len(s)])
    THEN TrimRight(SubSeq(s, 1, Len(s) - 1)) ELSE s

Trim(s) == TrimRight(TrimLeft(s))

(* format!("In {}: expected '{}', got '{}'", fun, match_char, next_char) *)
SyntaxErr(fun, match_char, got) ==
    [kind |-> "Err", fmt |-> "In {}: expected '{}', got '{}'",
     args |-> <<fun, match_char, got>>]

(* format!("IO error: {}", e), e the end-of-file error of the stream *)
IOErr == [kind |-> "Err", fmt |-> "IO error: {}", args |-> <<"end of file">>]

-----------------------------------------------------------------------------
(* reader.rs: helper functions.  rd is the record of the reader's fields   *)
(* pos, next_char and good.                                                *)

Reader == [pos |-> pos, next_char |-> next_char, good |-> good]

RECURSIVE GetNextCharLoop(_)
GetNextCharLoop(rd) ==
    IF ~IsWhitespace(rd.next_char) THEN rd
    ELSE IF rd.pos >= Len(input) THEN [rd EXCEPT !.good = FALSE]
    ELSE GetNextCharLoop([rd EXCEPT !.next_char = input[rd.pos + 1],
                                    !.pos = rd.pos + 1])

GetNextChar(rd) == GetNextCharLoop([rd EXCEPT !.next_char = " "])

MatchTokenSwapped(rd, match_char, fun) ==
    IF rd.next_char # match_char
    THEN [ok |-> FALSE, err |-> SyntaxErr(fun, rd.next_char, match_char), rd |-> rd]
    ELSE [ok |-> TRUE, err |-> <<>>, rd |-> GetNextChar(rd)]

MatchToken(rd, match_char, fun) ==
    IF rd.next_char # match_char
    THEN [ok |-> FALSE, err |-> SyntaxErr(fun, match_char, rd.next_char), rd |-> rd]
    ELSE [ok |-> TRUE, err |-> <<>>, rd |-> GetNextChar(rd)]

(* BufferedReader::read_line from position p: the characters up to and     *)
(* including the next '\n', or up to the end of the stream when at least   *)
(* one character is left; an end-of-file error when none is left.          *)
RECURSIVE LineEnd(_)
LineEnd(i) ==
    IF i >= Len(input) \/ input[i] = "\n" THEN i ELSE LineEnd(i + 1)

ReadLine(p) ==
    IF p >= Len(input) THEN [ok |-> FALSE, line |-> <<>>, pos |-> p]
    ELSE [ok |-> TRUE, line |-> SubSeq(input, p + 1, LineEnd(p + 1)),
          pos |-> LineEnd(p + 1)]

RECURSIVE ReadRestSkip(_)
ReadRestSkip(rd) ==
    IF rd.good /\ IsWhitespace(rd.next_char)
    THEN ReadRestSkip(GetNextChar(rd)) ELSE rd

ReadRest(rd) ==
    LET r1 == ReadRestSkip(rd)
        l  == ReadLine(r1.pos)
    IN  IF ~l.ok THEN [ok |-> FALSE, err |-> IOErr, out |-> <<>>, rd |-> r1]
        ELSE [ok |-> TRUE, err |-> <<>>, out |-> <<r1.next_char>> \o l.line,
              rd |-> GetNextChar([r1 EXCEPT !.pos = l.pos])]

(* parse_comment: the text of the comment, or the error *)
ParseComment(rd) ==
    LET m == MatchToken(rd, ";", "parse_comment")
        r == ReadRest(m.rd)
    IN  IF ~m.ok THEN [ok |-> FALSE, err |-> m.err, text |-> <<>>, rd |-> m.rd]
        ELSE IF ~r.ok THEN [ok |-> FALSE, err |-> r.err, text |-> <<>>, rd |-> r.rd]
        ELSE [ok |-> TRUE, err |-> <<>>, text |-> Trim(r.out), rd |-> r.rd]

(* parse_key after its name loop: '=' and the rest of the line *)
ParseKeyValue(rd) ==
    LET m == MatchToken(rd, "=", "parse_key")
        r == ReadRest(m.rd)
    IN  IF ~m.ok THEN [ok |-> FALSE, err |-> m.err, text |-> <<>>, rd |-> m.rd]
        ELSE IF ~r.ok THEN [ok |-> FALSE, err |-> r.err, text |-> <<>>, rd |-> r.rd]
        ELSE [ok |-> TRUE, err |-> <<>>, text |-> Trim(r.out), rd |-> r.rd]

SetReader(rd) ==
    /\ pos' = rd.pos
    /\ next_char' = rd.next_char
    /\ good' = rd.good

-----------------------------------------------------------------------------
(* reader.rs: the items the parser functions hand to their callers *)

ItemEntry(entry) == [tag |-> "Entry", entry |-> entry]

ItemSectionEntry(entry) == [tag |-> "SectionEntry", entry |-> entry]

ItemKey(name, value) == [tag |-> "Key", name |-> name, value |-> value]

(* the value parse_comment returns for a comment text *)
CommentItem(text, root) ==
    IF root THEN ItemEntry(EntryComment(text))
    ELSE ItemSectionEntry(SectionEntryComment(text))

(* the match on the StepOk item in parse: only an Entry is pushed *)
ParsePush(doc, item) ==
    IF item.tag = "Entry" THEN Append(doc, item.entry) ELSE doc

(* the match on the StepOk item in parse_section: only the items Comment   *)
(* and Key are pushed, every other item falls into the `_` arm             *)
SectionPush(entries, item) ==
    IF item.tag = "Comment" THEN Append(entries, SectionEntryComment(item.text))
    ELSE IF item.tag = "Key" THEN Append(entries, SectionEntryKey(item.name, item.value))
    ELSE entries

(* the branch parse_section's loop takes on the lookahead *)
SectionDispatchBreakOnComment(c) ==
    IF c = ";" \/ c = "[" THEN "break" ELSE "key"

SectionDispatch(c) ==
    IF c = ";" THEN "comment" ELSE IF c = "[" THEN "break" ELSE "key"

(* parse returns Err(e): the entries pushed so far stay in ini *)
ParseErrClearing(e) ==
    /\ result' = e
    /\ pc' = "parsed"
    /\ ini' = <<>>

ParseErr(e) ==
    /\ result' = e
    /\ pc' = "parsed"
    /\ ini' = ini

-----------------------------------------------------------------------------
(* writer.rs *)

PrintNoNewline(text, line) == text \o line

Println(text, line) == text \o line \o <<"\n">>

WriteSectionEntry(text, e) ==
    IF e.type = "Comment" THEN Println(text, <<";", " ">> \o e.text)
    ELSE Println(text, e.name \o <<" ", "=", " ">> \o e.value)

RECURSIVE WriteSectionEntries(_, _)
WriteSectionEntries(text, es) ==
    IF es = <<>> THEN text
    ELSE WriteSectionEntries(WriteSectionEntry(text, Head(es)), Tail(es))

WriteSectionBare(text, s) ==
    WriteSectionEntries(Println(text, s.name), s.entries)

WriteSection(text, s) ==
    WriteSectionEntries(Println(text, <<"[">> \o s.name \o <<"]">>), s.entries)

(* one iteration of write_ini_file's loop *)
WriteEntryText(text, entry) ==
    IF entry.type = "Section" THEN Println(WriteSection(text, entry), <<>>)
    ELSE Println(text, <<";", " ">> \o entry.text)

-----------------------------------------------------------------------------
(* State machine *)

NoResult == [kind |-> "None"]

OkResult == [kind |-> "Ok"]

NewReader ==
    /\ pos = 0
    /\ next_char = " "
    /\ good = TRUE
    /\ ini = <<>>

Init ==
    /\ NewReader
    /\ result = NoResult
    /\ acc = <<>>
    /\ section = Section(<<>>, <<>>)
    /\ out = <<>>
    /\ wi = 1
    /\ round = 1
    /\ \/ /\ mode = "parse"
          /\ input \in Inputs
          /\ ini_file = <<>>
          /\ pc = "new"
       \/ /\ mode = "print"
          /\ input = <<>>
          /\ ini_file \in Docs
          /\ pc = "write"

(* parse: the first get_next_char *)
ParseEnter ==
    /\ pc = "new"
    /\ SetReader(GetNextChar(Reader))
    /\ pc' = "parse_loop"
    /\ UNCHANGED <<input, ini, result, acc, section, ini_file, out, wi, round, mode>>

(* parse: the loop ends, parse returns Ok *)
ParseReturnOk ==
    /\ pc = "parse_loop"
    /\ ~good
    /\ result' = OkResult
    /\ pc' = "parsed"
    /\ UNCHANGED <<input, pos, next_char, good, ini, acc, section, ini_file,
                   out, wi, round, mode>>

(* parse: a ';' lookahead, parse_comment(true) and the push of its entry *)
ParseRootComment ==
    /\ pc = "parse_loop"
    /\ good
    /\ next_char = ";"
    /\ LET c == ParseComment(Reader) IN
         /\ SetReader(c.rd)
         /\ IF c.ok
            THEN /\ ini' = ParsePush(ini, CommentItem(c.text, TRUE))
                 /\ pc' = "parse_loop"
                 /\ result' = result
            ELSE ParseErr(c.err)
    /\ UNCHANGED <<input, acc, section, ini_file, out, wi, round, mode>>

(* parse: any other lookahead, parse_section, parse_section_name up to its loop *)
ParseSectionOpen ==
    /\ pc = "parse_loop"
    /\ good
    /\ next_char # ";"
    /\ LET m == MatchToken(Reader, "[", "parse_section") IN
         /\ SetReader(m.rd)
         /\ IF m.ok
            THEN /\ acc' = <<>>
                 /\ pc' = "section_name"
                 /\ UNCHANGED <<result, ini>>
            ELSE /\ ParseErr(m.err)
                 /\ acc' = acc
    /\ UNCHANGED <<input, section, ini_file, out, wi, round, mode>>

(* parse_section_name: one iteration of the name loop *)
SectionNameChar ==
    /\ pc = "section_name"
    /\ good /\ next_char # "]"
    /\ acc' = Append(acc, next_char)
    /\ SetReader(GetNextChar(Reader))
    /\ UNCHANGED <<input, ini, result, pc, section, ini_file, out, wi, round, mode>>

(* parse_section_name: after the loop, ']' and the new section of parse_section *)
SectionNameClose ==
    /\ pc = "section_name"
    /\ ~(good /\ next_char # "]")
    /\ LET m == MatchToken(Reader, "]", "parse_section") IN
         /\ SetReader(m.rd)
         /\ IF m.ok
            THEN /\ section' = Section(acc, <<>>)
                 /\ pc' = "section_loop"
                 /\ UNCHANGED <<result, ini>>
            ELSE /\ ParseErr(m.err)
                 /\ section' = section
    /\ UNCHANGED <<input, acc, ini_file, out, wi, round, mode>>

(* parse_section: the loop ends (end of stream or '[' lookahead), the       *)
(* section is returned and parse pushes it                                  *)
SectionReturn ==
    /\ pc = "section_loop"
    /\ ~good \/ SectionDispatch(next_char) = "break"
    /\ ini' = ParsePush(ini, ItemEntry(EntrySection(section)))
    /\ pc' = "parse_loop"
    /\ UNCHANGED <<input, pos, next_char, good, result, acc, section, ini_file,
                   out, wi, round, mode>>

(* parse_section: a ';' lookahead, parse_comment(false) and the match on its item *)
SectionComment ==
    /\ pc = "section_loop"
    /\ good
    /\ SectionDispatch(next_char) = "comment"
    /\ LET c == ParseComment(Reader) IN
         /\ SetReader(c.rd)
         /\ IF c.ok
            THEN /\ section' = [section EXCEPT
                                  !.entries = SectionPush(@, CommentItem(c.text, FALSE))]
                 /\ UNCHANGED <<result, ini, pc>>
            ELSE /\ ParseErr(c.err)
                 /\ section' = section
    /\ UNCHANGED <<input, acc, ini_file, out, wi, round, mode>>

(* parse_section: any other lookahead, parse_key up to its loop *)
KeyStart ==
    /\ pc = "section_loop"
    /\ good
    /\ SectionDispatch(next_char) = "key"
    /\ acc' = <<>>
    /\ pc' = "key_name"
    /\ UNCHANGED <<input, pos, next_char, good, ini, result, section, ini_file,
                   out, wi, round, mode>>

(* parse_key: one iteration of the name loop *)
KeyNameChar ==
    /\ pc = "key_name"
    /\ good /\ next_char # "="
    /\ acc' = Append(acc, next_char)
    /\ SetReader(GetNextChar(Reader))
    /\ UNCHANGED <<input, ini, result, pc, section, ini_file, out, wi, round, mode>>

(* parse_key: after the loop, '=' and the value; parse_section pushes the key *)
KeyFinish ==
    /\ pc = "key_name"
    /\ ~(good /\ next_char # "=")
    /\ LET k == ParseKeyValue(Reader) IN
         /\ SetReader(k.rd)
         /\ IF k.ok
            THEN /\ section' = [section EXCEPT
                                  !.entries = SectionPush(@, ItemKey(acc, k.text))]
                 /\ pc' = "section_loop"
                 /\ UNCHANGED <<result, ini>>
            ELSE /\ ParseErr(k.err)
                 /\ section' = section
    /\ UNCHANGED <<input, acc, ini_file, out, wi, round, mode>>

(* the document a successful parse left in ini is handed to write_ini_file *)
StartWrite ==
    /\ pc = "parsed"
    /\ result = OkResult
    /\ round = 1
    /\ ini_file' = ini
    /\ wi' = 1
    /\ out' = <<>>
    /\ pc' = "write"
    /\ UNCHANGED <<input, pos, next_char, good, ini, result, acc, section, round, mode>>

(* write_ini_file: one iteration of the loop over the entries *)
WriteEntry ==
    /\ pc = "write"
    /\ wi <= Len(ini_file)
    /\ out' = WriteEntryText(out, ini_file[wi])
    /\ wi' = wi + 1
    /\ UNCHANGED <<input, pos, next_char, good, ini, result, pc, acc, section,
                   ini_file, round, mode>>

(* write_ini_file returns to test_print *)
PrintReturn ==
    /\ pc = "write"
    /\ wi > Len(ini_file)
    /\ mode = "print"
    /\ pc' = "printed"
    /\ UNCHANGED <<input, pos, next_char, good, ini, result, acc, section,
                   ini_file, out, wi, round, mode>>

(* write_ini_file returns and a new IniReader is made over the printed text *)
Reparse ==
    /\ pc = "write"
    /\ wi > Len(ini_file)
    /\ mode = "parse"
    /\ input' = out
    /\ pos' = 0
    /\ next_char' = " "
    /\ good' = TRUE
    /\ ini' = <<>>
    /\ result' = NoResult
    /\ round' = 2
    /\ pc' = "new"
    /\ UNCHANGED <<acc, section, ini_file, out, wi, mode>>

Next ==
    \/ ParseEnter
    \/ ParseReturnOk
    \/ ParseRootComment
    \/ ParseSectionOpen
    \/ SectionNameChar
    \/ SectionNameClose
    \/ SectionReturn
    \/ SectionComment
    \/ KeyStart
    \/ KeyNameChar
    \/ KeyFinish
    \/ StartWrite
    \/ WriteEntry
    \/ PrintReturn
    \/ Reparse

Spec == Init /\ [][Next]_vars

-----------------------------------------------------------------------------
TypeOK ==
    /\ pos \in 0..Len(input)
    /\ good \in BOOLEAN
    /\ pc \in {"new", "parse_loop", "section_name", "section_loop", "key_name",
               "parsed", "write", "printed"}
    /\ round \in {1, 2}
    /\ (mode = "parse" /\ pc # "new" /\ good) => ~IsWhitespace(next_char)

-----------------------------------------------------------------------------
(* Helpers of the properties *)

Structural == {";", "[", "]", "=", "\n"}

NoStructuralText(t) == \A i \in 1..Len(t) : t[i] \notin Structural

NoStructuralEntry(e) ==
    IF e.type = "Comment" THEN NoStructuralText(e.text)
    ELSE /\ NoStructuralText(e.name)
         /\ \A i \in 1..Len(e.entries) :
              IF e.entries[i].type = "Comment"
              THEN NoStructuralText(e.entries[i].text)
              ELSE /\ NoStructuralText(e.entries[i].name)
                   /\ NoStructuralText(e.entries[i].value)

NoStructural(doc) == \A i \in 1..Len(doc) : NoStructuralEntry(doc[i])

IndexOf(s, c) == CHOOSE i \in 1..Len(s) : s[i] = c /\ \A j \in 1..(i - 1) : s[j] # c

Contains(s, c) == \E i \in 1..Len(s) : s[i] = c

LastOf(s) == s[Len(s)]

HasSection(doc) == \E i \in 1..Len(doc) : doc[i].type = "Section"

(* the text the grammar of the writer's output prescribes for a document *)
RenderSectionEntry(e) ==
    IF e.type = "Comment" THEN <<";", " ">> \o e.text
    ELSE e.name \o <<" ", "=", " ">> \o e.value

RenderEntry(e) ==
    IF e.type = "Comment" THEN <<";", " ">> \o e.text \o <<"\n">>
    ELSE <<"[">> \o e.name \o <<"]", "\n">>
         \o Flatten([i \in 1..Len(e.entries) |->
                        RenderSectionEntry(e.entries[i]) \o <<"\n">>])
         \o <<"\n">>

Render(doc) == Flatten([i \in 1..Len(doc) |-> RenderEntry(doc[i])])

(* the stream ends after the '\n' of its last construct *)
EndsAtBoundary(s) ==
    LET t == TrimRight(s)
    IN  t = <<>> \/ \E i \in (Len(t) + 1)..Len(s) : s[i] = "\n"

-----------------------------------------------------------------------------
(* C1: round trip. For every document that parse produced and in which no  *)
(* name, value or comment holds ';', '[', ']', '=' or a newline, parsing    *)
(* the text write_ini_file printed for it succeeds and gives an equal       *)
(* document.                                                                *)
C1_RoundTrip ==
    (mode = "parse" /\ round = 2 /\ pc = "parsed" /\ NoStructural(ini_file))
        => (result = OkResult /\ ini = ini_file)

C1_Witness ==
    /\ mode = "parse" /\ round = 2 /\ pc = "parsed"
    /\ NoStructural(ini_file)
    /\ Len(ini_file) = 2
    /\ ini_file[1] = EntryComment(<<"c">>)
    /\ ini_file[2].type = "Section"
    /\ ini_file[2].entries = <<SectionEntryKey(<<"k">>, <<"v">>)>>
    /\ ini = ini_file

(* C2: in a section body every ';' line is appended to the section's        *)
(* entries as a Comment and every other line as a Key, in input order; a    *)
(* '[' lookahead ends the section without being consumed; the stream        *)
(* "[a]\n; c\nk=v\n[b]\n" gives section a with [Comment c, Key k v] and     *)
(* then the empty section b.                                                *)
C2_SectionBodyRecorded ==
    [][/\ (pc = "section_loop" /\ good /\ next_char = ";" /\ pc' = "section_loop")
            => /\ Len(section'.entries) = Len(section.entries) + 1
               /\ LastOf(section'.entries).type = "Comment"
               /\ SubSeq(section'.entries, 1, Len(section.entries)) = section.entries
       /\ (pc = "key_name" /\ pc' = "section_loop")
            => /\ Len(section'.entries) = Len(section.entries) + 1
               /\ LastOf(section'.entries).type = "Key"
               /\ SubSeq(section'.entries, 1, Len(section.entries)) = section.entries
       /\ (pc = "section_loop" /\ good /\ next_char = "[")
            => /\ pos' = pos /\ next_char' = "[" /\ pc' = "parse_loop"
               /\ ini' = Append(ini, EntrySection(section))
       /\ (pc' = "parsed" /\ round' = 1
             /\ input' = Flatten(<<Frags[1], Frags[2], Frags[3], Frags[7]>>))
            => ini' = <<EntrySection(Section(<<"a">>,
                            <<SectionEntryComment(<<"c">>),
                              SectionEntryKey(<<"k">>, <<"v">>)>>)),
                        EntrySection(Section(<<"b">>, <<>>))>>
      ]_vars

(* C3: for a key line name=text\n the stored value is the trimmed text      *)
(* between the '=' and the '\n' that ends the same line, also when that     *)
(* text is empty or only whitespace.                                        *)
C3_ValueIsRestOfLine ==
    [][(/\ pc = "key_name" /\ good /\ next_char = "="
        /\ pos < Len(input) /\ input[LineEnd(pos + 1)] = "\n")
          => /\ pc' = "section_loop"
             /\ section'.entries # <<>>
             /\ LastOf(section'.entries).type = "Key"
             /\ LastOf(section'.entries).value
                  = Trim(SubSeq(input, pos + 1, LineEnd(pos + 1) - 1))
      ]_vars

C5_EofIsIOError ==
    (pc = "parsed" /\ result.kind = "Err" /\ ~good) => result.fmt = IOErr.fmt

(* C6: parse returns Ok only when the stream ends after the '\n' of a       *)
(* complete construct; the empty stream gives Ok and no entries.            *)
C6_OkOnlyAtBoundary ==
    (pc = "parsed" /\ round = 1)
        => /\ (input = <<>> => (result = OkResult /\ ini = <<>>))
           /\ (result = OkResult => EndsAtBoundary(input))

(* C7: at top level a lookahead that is neither ';' nor '[' makes parse     *)
(* fail with the syntax error that names the production parse_section, the  *)
(* expected '[' and the character found, and no entry is appended.          *)
C7_KeyBeforeSection ==
    [][(pc = "parse_loop" /\ good /\ next_char \notin {";", "["})
          => /\ pc' = "parsed"
             /\ result' = [kind |-> "Err",
                           fmt |-> "In {}: expected '{}', got '{}'",
                           args |-> <<"parse_section", "[", next_char>>]
             /\ ini' = ini
      ]_vars

C7_Witness ==
    /\ pc = "parsed" /\ round = 1
    /\ input = Frags[4]
    /\ result.kind = "Err"
    /\ result.args = <<"parse_section", "[", "k">>
    /\ ini = <<>>

(* C8: write_ini_file prints, in entry order, "; c\n" for a comment and     *)
(* for a section "[name]\n", one line per section entry and one blank       *)
(* line; the document it was given is not modified.                         *)
C8_WriterRenders ==
    [][/\ (pc' \in {"write", "printed"})
            => out' = Render(SubSeq(ini_file', 1, wi' - 1))
       /\ (pc' = "printed") => wi' = Len(ini_file') + 1
       /\ (pc \in {"write", "printed"}) => ini_file' = ini_file
      ]_vars

C8_Witness ==
    /\ pc = "printed"
    /\ ini_file = <<EntrySection(Section(<<"S">>, <<>>))>>
    /\ out = <<"[", "S", "]", "\n", "\n">>

(* C9: the stored name of a section is the text of the stream between the   *)
(* '[' and the ']' of its header, character for character.                  *)
C9_SectionNameIsRaw ==
    (/\ input # <<>> /\ Head(input) = "["
     /\ ini # <<>> /\ ini[1].type = "Section")
        => ini[1].name = SubSeq(input, 2, IndexOf(input, "]") - 1)

(* C10: in ini no top-level comment follows a section.                      *)
C10_NoRootCommentAfterSection ==
    \A i, j \in 1..Len(ini) :
        (i < j /\ ini[i].type = "Section") => ini[j].type # "Comment"

C10_Witness ==
    /\ pc = "section_loop" /\ good /\ next_char = ";"
    /\ HasSection(ini)

====
